---------------------------- MODULE Spec2Model ----------------------------
(***************************************************************************)
(* The LINE webhook ingestion pipeline of functions/src/index.ts:          *)
(* lineWebhook verifies the request signature, walks the batch of events,  *)
(* turns every "message" event into a LineMessage, resolves the sender's   *)
(* display name (getUserDisplayName) and appends one row per message to    *)
(* the Google Sheet (appendToGoogleSheet).                                 *)
(*                                                                         *)
(* One handler invocation is a sequence of atomic steps separated by its   *)
(* two awaits: the run from the entry to the first await (or to the        *)
(* response), the return of getProfile, and the return of the sheet        *)
(* append.  Several invocations interleave at these points.                *)
(***************************************************************************)
EXTENDS Naturals, Sequences, FiniteSets

VARIABLES
    pc,           \* pc[r]: "idle" | "lookup" (awaiting getUserDisplayName)
                  \*        | "append" (awaiting appendToGoogleSheet) | "done"
    req,          \* req[r]: the inbound request (signature header and body)
    idx,          \* idx[r]: position of the event the for-loop is at
    displayName,  \* displayName[r]: the local const displayName of the loop body
    status,       \* status[r]: 0 until a response is sent, then 200 | 401 | 500
    sink,         \* the sheet: rows in append order, each tagged with its writer
    verdict,      \* history: what validateSignature did for request r
    calls         \* history: the lookups and appends request r has performed

vars == <<pc, req, idx, displayName, status, sink, verdict, calls>>

-----------------------------------------------------------------------------
(* Bounds *)

MaxBatch == 2         \* events per batch, full event variety
MaxLongBatch == 3     \* events per batch, reduced event variety
MaxReplayBatch == 2   \* events per batch of concurrently running requests

Requests == {"r1", "r2"}

-----------------------------------------------------------------------------
(* JavaScript values: a string or undefined *)

Undefined == [t |-> "undefined", v |-> ""]
Str(s) == [t |-> "string", v |-> s]

\* `${x}` : string conversion of a template literal
StringOf(x) == IF x.t = "undefined" THEN "undefined" ELSE x.v

\* truthiness of a string-or-undefined value
Truthy(x) == x.t = "string" /\ x.v # ""

\* x || d
OrElse(x, d) == IF Truthy(x) THEN x ELSE d

\* new Date(timestamp).toISOString() on the timestamps the events carry
ToISOString(ts) ==
    CASE ts = "1700000000000" -> "2023-11-14T22:13:20.000Z"

-----------------------------------------------------------------------------
(* Inputs: transport events, batches, signature headers, remote outcomes *)

NoMessage == [id |-> "", type |-> "", text |-> "", fileName |-> Undefined,
              address |-> Undefined, stickerId |-> ""]

Msg(id, type) == [NoMessage EXCEPT !.id = id, !.type = type]

Event(type, m) ==
    [type |-> type, userId |-> "U1", timestamp |-> "1700000000000", message |-> m]

FollowEvent == Event("follow", NoMessage)
TextEvent == Event("message", [Msg("M1", "text") EXCEPT !.text = "hi"])
StickerEvent == Event("message", [Msg("M7", "sticker") EXCEPT !.stickerId = "42"])
FlexEvent == Event("message", Msg("M8", "flex"))

FileEvents ==
    { Event("message", [Msg("M5", "file") EXCEPT !.fileName = f]) :
        f \in {Undefined, Str(""), Str("a.pdf")} }

LocationEvents ==
    { Event("message", [Msg("M6", "location") EXCEPT !.address = a]) :
        a \in {Undefined, Str("Bangkok")} }

MediaEvents ==
    { Event("message", Msg("M2", "image")),
      Event("message", Msg("M3", "video")),
      Event("message", Msg("M4", "audio")) }

AllEvents ==
    {FollowEvent, TextEvent, StickerEvent, FlexEvent}
        \cup FileEvents \cup LocationEvents \cup MediaEvents

FewEvents == {FollowEvent, TextEvent, FlexEvent}

ReplayEvents == {FollowEvent, TextEvent, StickerEvent}

Batches(E, n) == UNION { [1..k -> E] : k \in 0..n }

\* The x-line-signature header: a signature of the re-serialized body, a
\* well-formed signature of something else, a string that is no base64
\* signature, or no header at all.
Signatures == {"match", "mismatch", "malformed", "missing"}

\* A request body is { events: [...] } or something without an iterable
\* events field.
RequestsOver(S, B) ==
    [signature : S, wellFormed : {TRUE}, events : B]
        \cup [signature : S, wellFormed : {FALSE}, events : {<<>>}]

NoRequest == [signature |-> "missing", wellFormed |-> FALSE, events |-> <<>>]

\* getProfile either rejects or resolves to a profile whose displayName the
\* caller reads.
ProfileOutcomes ==
    { [ok |-> FALSE, displayName |-> Undefined] }
        \cup [ok : {TRUE}, displayName : {Str("Alice"), Str(""), Undefined}]

\* the lookups that reject or resolve to a profile with a name
NamedOutcomes == { o \in ProfileOutcomes : ~o.ok \/ o.displayName = Str("Alice") }

-----------------------------------------------------------------------------
(* The components *)

\* validateSignature of @line/bot-sdk, as lineWebhook calls it: it compares
\* the HMAC of the body with Buffer.from(signature, "base64"); a buffer of
\* another length or content gives false, an undefined signature makes
\* Buffer.from throw a TypeError.
validateSignature(signature) ==
    CASE signature = "match" -> "true"
      [] signature = "mismatch" -> "false"
      [] signature = "malformed" -> "false"
      [] signature = "missing" -> "throw"

\* The gate after validateSignature: what the handler does next.
SignatureGate_Open(v) ==
    CASE v = "throw" -> "error"
      [] v = "false" -> "process"
      [] v = "true" -> "process"

SignatureGate(v) ==
    CASE v = "throw" -> "error"
      [] v = "false" -> "unauthorized"
      [] v = "true" -> "process"

\* const messageType = event.message.type
messageType(m) == m.type

\* the switch on event.message.type
messageBody_Nullish(m) ==
    CASE m.type = "text" -> m.text
      [] m.type = "image" -> "Image sent"
      [] m.type = "video" -> "Video sent"
      [] m.type = "audio" -> "Audio sent"
      [] m.type = "file" ->
            "File sent: " \o (IF m.fileName.t = "undefined" THEN "Unknown"
                              ELSE m.fileName.v)
      [] m.type = "location" -> "Location: " \o StringOf(m.address)
      [] m.type = "sticker" -> "Sticker: " \o m.stickerId
      [] OTHER -> "Unsupported message type"

messageBody(m) ==
    CASE m.type = "text" -> m.text
      [] m.type = "image" -> "Image sent"
      [] m.type = "video" -> "Video sent"
      [] m.type = "audio" -> "Audio sent"
      [] m.type = "file" ->
            "File sent: " \o StringOf(OrElse(m.fileName, Str("Unknown")))
      [] m.type = "location" -> "Location: " \o StringOf(m.address)
      [] m.type = "sticker" -> "Sticker: " \o m.stickerId
      [] OTHER -> "Unsupported message type"

\* getUserDisplayName: the profile's displayName, or the sentinel when the
\* lookup throws.
getUserDisplayName_Rethrow(outcome) ==
    IF outcome.ok
    THEN [threw |-> FALSE, value |-> outcome.displayName]
    ELSE [threw |-> TRUE, value |-> Undefined]

getUserDisplayName(outcome) ==
    IF outcome.ok
    THEN [threw |-> FALSE, value |-> outcome.displayName]
    ELSE [threw |-> FALSE, value |-> Str("Unknown User")]

\* the LineMessage the loop body assembles
LineMessage(event, name) ==
    [timestamp |-> event.timestamp, userId |-> event.userId,
     displayName |-> name, messageId |-> event.message.id,
     message |-> messageBody(event.message),
     messageType |-> messageType(event.message)]

\* the row appendToGoogleSheet builds from a LineMessage
RowOf(data) ==
    <<ToISOString(data.timestamp), data.userId, data.displayName,
      data.messageId, data.message, data.messageType>>

\* spreadsheets.values.append on range Sheet1!A:F
SheetAppend_Prepend(s, entry) == <<entry>> \o s

SheetAppend_Dedup(s, entry) ==
    IF \E k \in 1..Len(s) : s[k].row[4] = entry.row[4] THEN s ELSE Append(s, entry)

SheetAppend(s, entry) == Append(s, entry)

\* for (const event of events) if (event.type === "message"): the position
\* of the first message event after position i, 0 when the loop runs out
NextMessage_SkipOne(events, i) ==
    LET later == { j \in (i + 2)..Len(events) : events[j].type = "message" }
    IN  IF later = {} THEN 0 ELSE CHOOSE j \in later : \A k \in later : j <= k

NextMessage(events, i) ==
    LET later == { j \in (i + 1)..Len(events) : events[j].type = "message" }
    IN  IF later = {} THEN 0 ELSE CHOOSE j \in later : \A k \in later : j <= k

-----------------------------------------------------------------------------
(* The handler *)

Respond(r, code) ==
    /\ status' = [status EXCEPT ![r] = code]
    /\ pc' = [pc EXCEPT ![r] = "done"]

\* The loop moves on from position i: to the lookup of the next message
\* event, or out of the loop to response.status(200).send("OK").
Continue(r, events, i) ==
    LET j == NextMessage(events, i)
    IN  IF j = 0
        THEN /\ Respond(r, 200)
             /\ UNCHANGED idx
        ELSE /\ idx' = [idx EXCEPT ![r] = j]
             /\ pc' = [pc EXCEPT ![r] = "lookup"]
             /\ UNCHANGED status

\* A request arrives; the handler runs up to its first await.
lineWebhookReceive(r, request) ==
    /\ pc[r] = "idle"
    /\ req' = [req EXCEPT ![r] = request]
    /\ LET v == validateSignature(request.signature)
           gate == SignatureGate(v)
       IN  /\ verdict' = [verdict EXCEPT ![r] = v]
           /\ CASE gate = "unauthorized" ->
                     Respond(r, 401) /\ UNCHANGED idx
                [] gate = "error" ->
                     Respond(r, 500) /\ UNCHANGED idx
                [] gate = "process" ->
                     IF request.wellFormed
                     THEN Continue(r, request.events, 0)
                     ELSE Respond(r, 500) /\ UNCHANGED idx
    /\ UNCHANGED <<displayName, sink, calls>>

\* await getUserDisplayName(userId) returns; the handler builds the
\* LineMessage and calls appendToGoogleSheet.
lineWebhookLookup(r, outcome) ==
    /\ pc[r] = "lookup"
    /\ calls' = [calls EXCEPT ![r] =
                    Append(@, [op |-> "lookup", i |-> idx[r], ok |-> outcome.ok])]
    /\ LET res == getUserDisplayName(outcome)
       IN  IF res.threw
           THEN /\ Respond(r, 500)
                /\ UNCHANGED displayName
           ELSE /\ displayName' = [displayName EXCEPT ![r] = res.value]
                /\ pc' = [pc EXCEPT ![r] = "append"]
                /\ UNCHANGED status
    /\ UNCHANGED <<req, idx, sink, verdict>>

\* await appendToGoogleSheet(lineMessage) returns: the row is in the sheet and
\* the loop goes on, or the call threw and the catch block answers 500.
lineWebhookAppend_Swallow(r, apiOk) ==
    /\ pc[r] = "append"
    /\ calls' = [calls EXCEPT ![r] =
                    Append(@, [op |-> "append", i |-> idx[r], ok |-> apiOk])]
    /\ LET event == req[r].events[idx[r]]
           row == RowOf(LineMessage(event, displayName[r]))
       IN  /\ sink' = IF apiOk
                      THEN SheetAppend(sink, [row |-> row, by |-> r, ev |-> idx[r]])
                      ELSE sink
           /\ Continue(r, req[r].events, idx[r])
    /\ UNCHANGED <<req, displayName, verdict>>

lineWebhookAppend(r, apiOk) ==
    /\ pc[r] = "append"
    /\ calls' = [calls EXCEPT ![r] =
                    Append(@, [op |-> "append", i |-> idx[r], ok |-> apiOk])]
    /\ LET event == req[r].events[idx[r]]
           row == RowOf(LineMessage(event, displayName[r]))
       IN  IF apiOk
           THEN /\ sink' = SheetAppend(sink, [row |-> row, by |-> r, ev |-> idx[r]])
                /\ Continue(r, req[r].events, idx[r])
           ELSE /\ Respond(r, 500)
                /\ UNCHANGED <<sink, idx>>
    /\ UNCHANGED <<req, displayName, verdict>>

-----------------------------------------------------------------------------
(* Specifications *)

Init ==
    /\ pc = [r \in Requests |-> "idle"]
    /\ req = [r \in Requests |-> NoRequest]
    /\ idx = [r \in Requests |-> 0]
    /\ displayName = [r \in Requests |-> Undefined]
    /\ status = [r \in Requests |-> 0]
    /\ sink = <<>>
    /\ verdict = [r \in Requests |-> "none"]
    /\ calls = [r \in Requests |-> <<>>]

Receive(R, inputs) ==
    \E r \in R :
        /\ pc[r] = "idle"
        /\ \E request \in inputs : lineWebhookReceive(r, request)

Lookup(R, outcomes) ==
    \E r \in R :
        /\ pc[r] = "lookup"
        /\ \E outcome \in outcomes : lineWebhookLookup(r, outcome)

AppendRow(R) ==
    \E r \in R :
        /\ pc[r] = "append"
        /\ \E apiOk \in BOOLEAN : lineWebhookAppend(r, apiOk)

\* one request, every kind of event and header
Next ==
    \/ Receive({"r1"}, RequestsOver(Signatures, Batches(AllEvents, MaxBatch)))
    \/ Lookup({"r1"}, ProfileOutcomes)
    \/ AppendRow({"r1"})

Spec == Init /\ [][Next]_vars

\* one request, longer batches
NextBatch ==
    \/ Receive({"r1"}, RequestsOver(Signatures, Batches(FewEvents, MaxLongBatch)))
    \/ Lookup({"r1"}, ProfileOutcomes)
    \/ AppendRow({"r1"})

SpecBatch == Init /\ [][NextBatch]_vars

\* concurrent requests
NextConcurrent ==
    \/ Receive(Requests, RequestsOver({"match", "mismatch"},
                                      Batches(ReplayEvents, MaxReplayBatch)))
    \/ Lookup(Requests, NamedOutcomes)
    \/ AppendRow(Requests)

SpecConcurrent == Init /\ [][NextConcurrent]_vars

-----------------------------------------------------------------------------
(* Properties *)

SinkBy(r) == SelectSeq(sink, LAMBDA e : e.by = r)

MessagePositions(events) == { j \in 1..Len(events) : events[j].type = "message" }

EntriesFor(r, j) == { k \in 1..Len(sink) : sink[k].by = r /\ sink[k].ev = j }

FailedLookup(c) == c.op = "lookup" /\ ~c.ok

FailedAppend(c) == c.op = "append" /\ ~c.ok

Kinds == {"text", "image", "video", "audio", "file", "location", "sticker",
          "unsupported"}

\* C1: a request whose signature verification returned false is answered 401
\* and has performed no profile lookup and no sink append, whatever events
\* its body carries.
C1_InvalidSignatureRejected ==
    \A r \in Requests :
        verdict[r] = "false" =>
            /\ status[r] = 401
            /\ pc[r] = "done"
            /\ calls[r] = <<>>
            /\ SinkBy(r) = <<>>

C1_Witness ==
    \E r \in Requests :
        /\ verdict[r] = "false"
        /\ status[r] = 401
        /\ MessagePositions(req[r].events) # {}

\* C2: every row in the sink has a kind (6th column) in the closed set
\* {text, image, video, audio, file, location, sticker, unsupported}; a
\* message with an unrecognized type tag is recorded with kind "unsupported".
C2_KindInClosedSet ==
    \A k \in 1..Len(sink) : sink[k].row[6] \in Kinds

\* C3: every row in the sink has a populated displayName (3rd column), never
\* empty and never undefined, whatever the profile lookup returned.
C3_DisplayNamePopulated ==
    \A k \in 1..Len(sink) : Truthy(sink[k].row[3])

\* C4: a failing profile lookup never aborts ingestion: the lookup yields
\* "Unknown User", the handler goes on to the append of the same event, a
\* successful append leaves the row with displayName "Unknown User" in the
\* sink, and a 500 response is only ever caused by something else (the
\* signature check throwing, a malformed body, a failed append).
C4_LookupFailureRecovered ==
    \A r \in Requests :
        /\ \A p \in 1..Len(calls[r]) :
              FailedLookup(calls[r][p]) =>
                 IF p = Len(calls[r])
                 THEN /\ pc[r] = "append"
                      /\ status[r] = 0
                      /\ displayName[r] = Str("Unknown User")
                 ELSE /\ calls[r][p + 1].op = "append"
                      /\ calls[r][p + 1].i = calls[r][p].i
                      /\ calls[r][p + 1].ok =>
                            \E k \in EntriesFor(r, calls[r][p].i) :
                                sink[k].row[3] = Str("Unknown User")
        /\ status[r] = 500 =>
              \/ verdict[r] = "throw"
              \/ ~req[r].wellFormed
              \/ /\ calls[r] # <<>>
                 /\ FailedAppend(calls[r][Len(calls[r])])

C4_Witness ==
    \E r \in Requests :
        /\ status[r] = 200
        /\ \E p \in 1..Len(calls[r]) :
              /\ FailedLookup(calls[r][p])
              /\ \E k \in EntriesFor(r, calls[r][p].i) :
                    sink[k].row[3] = Str("Unknown User")

\* C5: when the sink append fails for a message event, the request is
\* answered 500, the rows of the earlier message events stay in the sink, the
\* failed append is not retried, and no lookup or append is performed for any
\* later event.
C5_SinkFailureAborts ==
    \A r \in Requests :
        \A p \in 1..Len(calls[r]) :
            FailedAppend(calls[r][p]) =>
                /\ p = Len(calls[r])
                /\ pc[r] = "done"
                /\ status[r] = 500
                /\ \A j \in MessagePositions(req[r].events) :
                      IF j < calls[r][p].i
                      THEN Cardinality(EntriesFor(r, j)) = 1
                      ELSE EntriesFor(r, j) = {}
                /\ \A q \in 1..Len(calls[r]) :
                      /\ calls[r][q].i <= calls[r][p].i
                      /\ (calls[r][q].op = "append" /\ calls[r][q].i = calls[r][p].i)
                            => q = p

C5_Witness ==
    \E r \in Requests :
        \E p \in 1..Len(calls[r]) :
            /\ FailedAppend(calls[r][p])
            /\ status[r] = 500
            /\ \E j \in MessagePositions(req[r].events) :
                  j < calls[r][p].i /\ EntriesFor(r, j) # {}
            /\ \E j \in MessagePositions(req[r].events) : j > calls[r][p].i

\* C6: within one request the appends happen in the arrival order of its
\* message events, one at a time (the append for an event completes before
\* the lookup for the next one starts); however the appends of concurrent
\* requests interleave, the rows of each request are in the sink in the order
\* of that request's events.
C6_PerRequestOrder ==
    \A r \in Requests :
        LET mine == SinkBy(r)
            events == req[r].events
        IN  /\ \A a, b \in 1..Len(mine) : a < b => mine[a].ev < mine[b].ev
            /\ \A a \in 1..Len(mine) :
                  /\ mine[a].ev \in MessagePositions(events)
                  /\ mine[a].row[4] = events[mine[a].ev].message.id
                  /\ \A j \in MessagePositions(events) :
                        j < mine[a].ev => \E b \in 1..(a - 1) : mine[b].ev = j
            /\ \A p \in 1..Len(calls[r]) :
                  IF calls[r][p].op = "lookup"
                  THEN p > 1 =>
                          /\ calls[r][p - 1].op = "append"
                          /\ calls[r][p - 1].ok
                          /\ calls[r][p - 1].i < calls[r][p].i
                          /\ EntriesFor(r, calls[r][p - 1].i) # {}
                  ELSE /\ p > 1
                       /\ calls[r][p - 1].op = "lookup"
                       /\ calls[r][p - 1].i = calls[r][p].i
            /\ pc[r] = "lookup" =>
                  \A j \in MessagePositions(events) :
                      j < idx[r] => EntriesFor(r, j) # {}

C6_Witness ==
    \E r, o \in Requests :
        /\ r # o
        /\ \E k1, k2, k3 \in 1..Len(sink) :
              /\ k1 < k2 /\ k2 < k3
              /\ sink[k1].by = r /\ sink[k2].by = o /\ sink[k3].by = r
              /\ sink[k1].ev < sink[k3].ev

\* C7: a request whose signature header is missing or malformed is an
\* authentication failure: verification yields false without throwing, the
\* response is 401 (never 500) and no lookup or append is performed.
C7_BadHeaderUnauthorized ==
    \A r \in Requests :
        (pc[r] = "done" /\ req[r].signature \in {"missing", "malformed"}) =>
            /\ verdict[r] = "false"
            /\ status[r] = 401
            /\ calls[r] = <<>>

\* C8 as stated: the body (5th column) of every row is the one the table
\* gives for the event's type tag; for a file it is "File sent: " followed by
\* fileName, or by "Unknown" when fileName is absent.
C8_BodyTableAsStated ==
    \A k \in 1..Len(sink) :
        LET m == req[sink[k].by].events[sink[k].ev].message
            body == sink[k].row[5]
        IN  /\ m.type = "text" => body = m.text
            /\ m.type = "image" => body = "Image sent"
            /\ m.type = "video" => body = "Video sent"
            /\ m.type = "audio" => body = "Audio sent"
            /\ (m.type = "file" /\ m.fileName.t = "string")
                  => body = "File sent: " \o m.fileName.v
            /\ (m.type = "file" /\ m.fileName.t = "undefined")
                  => body = "File sent: Unknown"
            /\ m.type = "location" => body = "Location: " \o StringOf(m.address)
            /\ m.type = "sticker" => body = "Sticker: " \o m.stickerId
            /\ m.type \notin (Kinds \ {"unsupported"})
                  => body = "Unsupported message type"

\* C8 as amended: as above, but for a file the body is "File sent: " followed
\* by fileName when fileName is a non-empty string, and "File sent: Unknown"
\* when fileName is absent or the empty string.
C8_BodyTable ==
    \A k \in 1..Len(sink) :
        LET m == req[sink[k].by].events[sink[k].ev].message
            body == sink[k].row[5]
        IN  /\ m.type = "text" => body = m.text
            /\ m.type = "image" => body = "Image sent"
            /\ m.type = "video" => body = "Video sent"
            /\ m.type = "audio" => body = "Audio sent"
            /\ (m.type = "file" /\ m.fileName.t = "string" /\ m.fileName.v # "")
                  => body = "File sent: " \o m.fileName.v
            /\ (m.type = "file" /\ m.fileName \in {Undefined, Str("")})
                  => body = "File sent: Unknown"
            /\ m.type = "location" => body = "Location: " \o StringOf(m.address)
            /\ m.type = "sticker" => body = "Sticker: " \o m.stickerId
            /\ m.type \notin (Kinds \ {"unsupported"})
                  => body = "Unsupported message type"

C8_Witness ==
    \E k \in 1..Len(sink) :
        LET m == req[sink[k].by].events[sink[k].ev].message
        IN  /\ m.type = "file"
            /\ m.fileName = Str("")
            /\ sink[k].row[5] = "File sent: Unknown"

\* C9: no deduplication by messageId: when an identical validly signed batch
\* has gone through the handler twice, every lookup and append succeeding and
\* both requests answered 200, the sink holds the rows of each messageId of
\* the batch twice over.
C9_ReplayDuplicates ==
    \A a, b \in Requests :
        LET events == req[a].events
            WithId(id) == { k \in 1..Len(sink) : sink[k].row[4] = id }
            InBatch(id) == { j \in MessagePositions(events) : events[j].message.id = id }
        IN  ( /\ a # b
              /\ status[a] = 200 /\ status[b] = 200
              /\ req[b].events = events
              /\ \A r \in {a, b} : \A p \in 1..Len(calls[r]) : calls[r][p].ok )
            => \A j \in MessagePositions(events) :
                  LET id == events[j].message.id
                  IN  /\ Cardinality(WithId(id)) >= 2 * Cardinality(InBatch(id))
                      /\ Cardinality({ k \in WithId(id) : sink[k].by \in {a, b} })
                            = 2 * Cardinality(InBatch(id))

C9_Witness ==
    \E a, b \in Requests :
        /\ a # b
        /\ status[a] = 200 /\ status[b] = 200
        /\ req[b].events = req[a].events
        /\ \A r \in {a, b} : \A p \in 1..Len(calls[r]) : calls[r][p].ok
        /\ Cardinality(MessagePositions(req[a].events)) = 2
        /\ Len(sink) = 4

\* C10: 200 is sent only after the whole batch has been processed: at that
\* moment the request has appended exactly one row per message event of its
\* batch, and events of any other type have caused no lookup, no append and
\* no error.
C10_OkAfterWholeBatch ==
    \A r \in Requests :
        LET events == req[r].events
        IN  /\ status[r] = 200 =>
                  /\ pc[r] = "done"
                  /\ Len(SinkBy(r)) = Cardinality(MessagePositions(events))
                  /\ \A j \in MessagePositions(events) :
                        Cardinality(EntriesFor(r, j)) = 1
            /\ \A p \in 1..Len(calls[r]) :
                  calls[r][p].i \in MessagePositions(events)
            /\ \A k \in 1..Len(sink) :
                  sink[k].by = r => sink[k].ev \in MessagePositions(events)
            /\ ( /\ pc[r] = "done"
                 /\ verdict[r] = "true"
                 /\ req[r].wellFormed
                 /\ MessagePositions(events) = {} )
                  => (status[r] = 200 /\ calls[r] = <<>>)

C10_Witness ==
    \E r \in Requests :
        /\ status[r] = 200
        /\ Len(req[r].events) = 2
        /\ Cardinality(MessagePositions(req[r].events)) = 1
        /\ Len(SinkBy(r)) = 1

=============================================================================
